---- MODULE Spec2Model ----
(***************************************************************************)
(* Command-line option parser and word wrapper of                          *)
(* src/clustering/administration/main/options.cc.                          *)
(*                                                                         *)
(* A C string is a sequence of one-character strings; std::vector is a     *)
(* sequence; std::map is a function whose DOMAIN is the key set.  A        *)
(* pointer to an element of the options vector is its 1-based index, and   *)
(* NULL is index 0.                                                        *)
(***************************************************************************)
EXTENDS Integers, Sequences, FiniteSets, TLC

(* ------------------------------ bounds --------------------------------- *)

\* largest argc drawn for a call of do_parse_command_line
MaxArgc == 4

\* longest string and largest width handed to word_wrap
MaxStrLen == 5
MaxWidth == 3

(* ------------------------ strings of the model -------------------------- *)

StrPort == <<"-", "-", "p">>
StrPortShort == <<"-", "p">>
StrVerbose == <<"-", "v">>
StrHost == <<"-", "h">>
StrJoin == <<"-", "j">>
StrMachine == <<"-", "m">>
StrUndeclared == <<"-", "x">>
StrValue == <<"a">>
StrEmpty == <<>>
StrDefault == <<"8">>

\* the tokens an argument vector is drawn from
ArgAlphabet == {StrPort, StrPortShort, StrVerbose, StrHost, StrJoin, StrMachine,
                StrUndeclared, StrValue, StrEmpty}

\* the characters a word_wrap input is drawn from
WrapAlphabet == {"a", " ", "\n"}

RECURSIVE SeqsUpTo(_, _)
SeqsUpTo(S, n) ==
    IF n = 0 THEN {<<>>}
    ELSE LET shorter == SeqsUpTo(S, n - 1)
         IN  shorter \cup {Append(q, e) : q \in {r \in shorter : Len(r) = n - 1}, e \in S}

(* ------------------------------ option_t -------------------------------- *)

\* SIZE_MAX stands for "unbounded": it is only ever compared for equality
\* with the size of a vector of at most MaxArgc values, so the largest
\* integer of the model checker serves for 2^64 - 1
SIZE_MAX == 2147483647

NUL == "NUL"

NULL == 0

\* option_t::option_t(names, appearance)
option_t(names, appearance) ==
    CASE appearance = "MANDATORY" ->
            [names |-> names, default_values |-> <<>>,
             min_appearances |-> 1, max_appearances |-> 1, no_parameter |-> FALSE]
      [] appearance = "MANDATORY_REPEAT" ->
            [names |-> names, default_values |-> <<>>,
             min_appearances |-> 1, max_appearances |-> SIZE_MAX, no_parameter |-> FALSE]
      [] appearance = "OPTIONAL" ->
            [names |-> names, default_values |-> <<>>,
             min_appearances |-> 0, max_appearances |-> 1, no_parameter |-> FALSE]
      [] appearance = "OPTIONAL_REPEAT" ->
            [names |-> names, default_values |-> <<>>,
             min_appearances |-> 0, max_appearances |-> SIZE_MAX, no_parameter |-> FALSE]
      [] appearance = "OPTIONAL_NO_PARAMETER" ->
            [names |-> names, default_values |-> <<>>,
             min_appearances |-> 0, max_appearances |-> 1, no_parameter |-> TRUE]

\* option_t::option_t(names, appearance, default_value); any other
\* appearance is unreachable()
option_t_default(names, appearance, default_value) ==
    CASE appearance = "OPTIONAL" ->
            [names |-> names, default_values |-> <<default_value>>,
             min_appearances |-> 0, max_appearances |-> 1, no_parameter |-> FALSE]
      [] appearance = "OPTIONAL_REPEAT" ->
            [names |-> names, default_values |-> <<default_value>>,
             min_appearances |-> 0, max_appearances |-> SIZE_MAX, no_parameter |-> FALSE]

\* the options vector handed to the parser: one option per appearance
\* policy, one of them with two names and a default value
Options ==
    << option_t_default(<<StrPort, StrPortShort>>, "OPTIONAL", StrDefault),
       option_t(<<StrVerbose>>, "OPTIONAL_NO_PARAMETER"),
       option_t(<<StrHost>>, "MANDATORY"),
       option_t(<<StrJoin>>, "OPTIONAL_REPEAT"),
       option_t(<<StrMachine>>, "MANDATORY_REPEAT") >>

(* ------------------------------ helpers --------------------------------- *)

\* str[n] of a NUL-terminated C string
CStrAt(str, n) == IF n < Len(str) THEN str[n + 1] ELSE NUL

looks_like_option_name_dashdash(str) == CStrAt(str, 0) = "-" /\ CStrAt(str, 1) = "-"

looks_like_option_name(str) == CStrAt(str, 0) = "-"

Min(S) == CHOOSE n \in S : \A m \in S : n <= m

find_option_canonical_only(option_name, options) ==
    LET hits == {n \in 1..Len(options) : options[n].names[1] = option_name}
    IN  IF hits = {} THEN NULL ELSE Min(hits)

\* the first option, in vector order, one of whose names equals option_name
find_option(option_name, options) ==
    LET hits == {n \in 1..Len(options) :
                    \E m \in 1..Len(options[n].names) : options[n].names[m] = option_name}
    IN  IF hits = {} THEN NULL ELSE Min(hits)

official_name_last(option) == option.names[Len(option.names)]

\* const std::string official_name = option->names[0]
official_name(option) == option.names[1]

EmptyMap == [k \in {} |-> <<>>]

\* std::map::operator[]: the map with key k default-constructed if absent
MapIndex(m, k) == [j \in DOMAIN m \cup {k} |-> IF j \in DOMAIN m THEN m[j] ELSE <<>>]

MapSet(m, k, v) == [j \in DOMAIN m \cup {k} |-> IF j = k THEN v ELSE m[j]]

\* std::map::insert: no effect when the key is present
MapInsert(m, k, v) == IF k \in DOMAIN m THEN m ELSE MapSet(m, k, v)

at_max_appearances_off_by_one(option_parameters, option) ==
    Len(option_parameters) > option.max_appearances

\* option_parameters->size() == static_cast<size_t>(option->max_appearances)
at_max_appearances(option_parameters, option) ==
    Len(option_parameters) = option.max_appearances

unrecognized_action_dash_first(collect, option_name) ==
    IF looks_like_option_name(option_name) THEN "unrecognized option"
    ELSE IF collect THEN "collect"
    ELSE "unexpected unnamed value"

unrecognized_action_errors_swapped(collect, option_name) ==
    IF collect THEN "collect"
    ELSE IF looks_like_option_name(option_name) THEN "unexpected unnamed value"
    ELSE "unrecognized option"

\* what the !option branch does with a token that matches no option
unrecognized_action(collect, option_name) ==
    IF collect THEN "collect"
    ELSE IF looks_like_option_name(option_name) THEN "unrecognized option"
    ELSE "unexpected unnamed value"

RECURSIVE insert_defaults_overwrite(_, _, _)
insert_defaults_overwrite(m, options, n) ==
    IF n > Len(options) THEN m
    ELSE insert_defaults_overwrite(
             IF options[n].min_appearances = 0
             THEN MapSet(m, options[n].names[1], options[n].default_values)
             ELSE m,
             options, n + 1)

RECURSIVE insert_defaults_all(_, _, _)
insert_defaults_all(m, options, n) ==
    IF n > Len(options) THEN m
    ELSE insert_defaults_all(
             MapInsert(m, options[n].names[1], options[n].default_values),
             options, n + 1)

\* the loop over options that inserts the default values, from element n on
RECURSIVE insert_defaults(_, _, _)
insert_defaults(m, options, n) ==
    IF n > Len(options) THEN m
    ELSE insert_defaults(
             IF options[n].min_appearances = 0
             THEN MapInsert(m, options[n].names[1], options[n].default_values)
             ELSE m,
             options, n + 1)

(* ------------------------------- state ---------------------------------- *)

VARIABLES
    argv,                 \* the argument vector; argc is Len(argv)
    collect_unrecognized, \* unrecognized_out != NULL
    names_by_values_out,  \* the caller's map
    unrecognized_out,     \* the caller's vector (unused when NULL)
    pc,                   \* "loop", "done" (returned) or "thrown"
    err,                  \* which parse_error_t was thrown, "none" if none
    i,                    \* the loop index i
    names_by_values,      \* the local map
    unrecognized,         \* the local vector
    name_positions,       \* history: the 1-based positions read as option_name
    s,                    \* word_wrap's string
    width,                \* word_wrap's width
    wpc,                  \* "call" or "returned"
    ret                   \* word_wrap's return value

parse_vars == <<argv, collect_unrecognized, names_by_values_out, unrecognized_out,
                pc, err, i, names_by_values, unrecognized, name_positions>>

wrap_vars == <<s, width, wpc, ret>>

vars == <<argv, collect_unrecognized, names_by_values_out, unrecognized_out,
          pc, err, i, names_by_values, unrecognized, name_positions,
          s, width, wpc, ret>>

argc == Len(argv)

\* what a caller's map and vector may hold from earlier use
StaleMap == MapSet(EmptyMap, StrHost, <<StrValue>>)

StaleUnrecognized == <<StrUndeclared>>

(* --------------------------- do_parse_command_line ---------------------- *)

\* const char *const option_name = argv[i]
option_name == argv[i + 1]

option_index == find_option(option_name, Options)

option == Options[option_index]

\* &names_by_values[official_name]: the local map once the slot exists
slot_map == MapIndex(names_by_values, official_name(option))

option_parameters == slot_map[official_name(option)]

ReadName ==
    /\ pc = "loop"
    /\ i < argc
    /\ name_positions' = Append(name_positions, i + 1)

Throw(e, consumed) ==
    /\ pc' = "thrown"
    /\ err' = e
    /\ i' = i + consumed
    /\ UNCHANGED <<argv, collect_unrecognized, names_by_values_out, unrecognized_out,
                   wrap_vars>>

\* unrecognized.push_back(option_name); continue
CollectUnrecognized ==
    /\ ReadName
    /\ option_index = NULL
    /\ unrecognized_action(collect_unrecognized, option_name) = "collect"
    /\ unrecognized' = Append(unrecognized, option_name)
    /\ i' = i + 1
    /\ UNCHANGED <<argv, collect_unrecognized, names_by_values_out, unrecognized_out,
                   pc, err, names_by_values, wrap_vars>>

ThrowUnrecognizedOption ==
    /\ ReadName
    /\ option_index = NULL
    /\ unrecognized_action(collect_unrecognized, option_name) = "unrecognized option"
    /\ Throw("unrecognized option", 1)
    /\ UNCHANGED <<names_by_values, unrecognized>>

ThrowUnexpectedValue ==
    /\ ReadName
    /\ option_index = NULL
    /\ unrecognized_action(collect_unrecognized, option_name) = "unexpected unnamed value"
    /\ Throw("unexpected unnamed value", 1)
    /\ UNCHANGED <<names_by_values, unrecognized>>

ThrowTooManyTimes ==
    /\ ReadName
    /\ option_index # NULL
    /\ at_max_appearances(option_parameters, option)
    /\ Throw("appears too many times", 1)
    /\ names_by_values' = slot_map
    /\ UNCHANGED unrecognized

\* option_parameters->push_back("")
PushNoParameter ==
    /\ ReadName
    /\ option_index # NULL
    /\ ~at_max_appearances(option_parameters, option)
    /\ option.no_parameter
    /\ names_by_values' = MapSet(slot_map, official_name(option),
                                 Append(option_parameters, StrEmpty))
    /\ i' = i + 1
    /\ UNCHANGED <<argv, collect_unrecognized, names_by_values_out, unrecognized_out,
                   pc, err, unrecognized, wrap_vars>>

ThrowMissingParameter ==
    /\ ReadName
    /\ option_index # NULL
    /\ ~at_max_appearances(option_parameters, option)
    /\ ~option.no_parameter
    /\ i + 1 = argc
    /\ Throw("missing its parameter", 1)
    /\ names_by_values' = slot_map
    /\ UNCHANGED unrecognized

\* const char *const option_parameter = argv[i] after the first ++i
option_parameter == argv[i + 2]

ThrowLooksLikeOption ==
    /\ ReadName
    /\ option_index # NULL
    /\ ~at_max_appearances(option_parameters, option)
    /\ ~option.no_parameter
    /\ i + 1 # argc
    /\ looks_like_option_name(option_parameter)
    /\ Throw("looks like another option name", 2)
    /\ names_by_values' = slot_map
    /\ UNCHANGED unrecognized

PushParameter_direct ==
    /\ ReadName
    /\ option_index # NULL
    /\ ~at_max_appearances(option_parameters, option)
    /\ ~option.no_parameter
    /\ i + 1 # argc
    /\ ~looks_like_option_name(option_parameter)
    /\ names_by_values' = MapSet(slot_map, official_name(option),
                                 Append(option_parameters, option_parameter))
    /\ names_by_values_out' = names_by_values'
    /\ i' = i + 2
    /\ UNCHANGED <<argv, collect_unrecognized, unrecognized_out,
                   pc, err, unrecognized, wrap_vars>>

\* option_parameters->push_back(option_parameter)
PushParameter ==
    /\ ReadName
    /\ option_index # NULL
    /\ ~at_max_appearances(option_parameters, option)
    /\ ~option.no_parameter
    /\ i + 1 # argc
    /\ ~looks_like_option_name(option_parameter)
    /\ names_by_values' = MapSet(slot_map, official_name(option),
                                 Append(option_parameters, option_parameter))
    /\ i' = i + 2
    /\ UNCHANGED <<argv, collect_unrecognized, names_by_values_out, unrecognized_out,
                   pc, err, unrecognized, wrap_vars>>

\* the loop has ended: insert the defaults, swap the results out, return
Return ==
    /\ pc = "loop"
    /\ ~(i < argc)
    /\ names_by_values_out' = insert_defaults(names_by_values, Options, 1)
    /\ names_by_values' = names_by_values_out
    /\ IF collect_unrecognized
       THEN /\ unrecognized_out' = unrecognized
            /\ unrecognized' = unrecognized_out
       ELSE UNCHANGED <<unrecognized_out, unrecognized>>
    /\ pc' = "done"
    /\ UNCHANGED <<argv, collect_unrecognized, err, i, name_positions, wrap_vars>>

WrapIdle ==
    /\ s = <<>>
    /\ width = 0
    /\ wpc = "idle"
    /\ ret = <<>>

\* parse_command_line (unrecognized_out NULL) or
\* parse_command_line_and_collect_unrecognized (unrecognized_out not NULL)
\* entering do_parse_command_line
Init ==
    /\ argv \in SeqsUpTo(ArgAlphabet, MaxArgc)
    /\ collect_unrecognized \in BOOLEAN
    /\ names_by_values_out \in {EmptyMap, StaleMap}
    /\ unrecognized_out = IF collect_unrecognized /\ names_by_values_out = StaleMap
                          THEN StaleUnrecognized ELSE <<>>
    /\ pc = "loop"
    /\ err = "none"
    /\ i = 0
    /\ names_by_values = EmptyMap
    /\ unrecognized = <<>>
    /\ name_positions = <<>>
    /\ WrapIdle

Next ==
    \/ CollectUnrecognized
    \/ ThrowUnrecognizedOption
    \/ ThrowUnexpectedValue
    \/ ThrowTooManyTimes
    \/ PushNoParameter
    \/ ThrowMissingParameter
    \/ ThrowLooksLikeOption
    \/ PushParameter
    \/ Return

Spec == Init /\ [][Next]_vars

(* ------------------- vocabulary of the properties ----------------------- *)

OptionSet == {Options[n] : n \in 1..Len(Options)}

Names(o) == {o.names[m] : m \in 1..Len(o.names)}

Canonical(o) == Head(o.names)

Declared(t) == \E o \in OptionSet : t \in Names(o)

OptionOf(t) == CHOOSE o \in OptionSet : t \in Names(o)

StartsWithDash(t) == Len(t) > 0 /\ Head(t) = "-"

\* the token read at the n-th name position
NameAt(n) == argv[name_positions[n]]

LastName == Len(name_positions)

\* the number of name positions whose iteration ran to its end
Completed == IF pc = "thrown" THEN LastName - 1 ELSE LastName

\* the name positions before the n-th at which option o was named
Earlier(o, n) == {j \in 1..(n - 1) : NameAt(j) \in Names(o)}

ReferencedIn(o, n) == \E j \in 1..n : NameAt(j) \in Names(o)

\* the values the input supplies to option o at the first n name positions
RECURSIVE Supplied(_, _)
Supplied(o, n) ==
    IF n = 0 THEN <<>>
    ELSE IF NameAt(n) \in Names(o)
         THEN Append(Supplied(o, n - 1),
                     IF o.no_parameter THEN <<>> ELSE argv[name_positions[n] + 1])
         ELSE Supplied(o, n - 1)

\* the tokens at the first n name positions that match no declared name
RECURSIVE UnrecognizedTokens(_)
UnrecognizedTokens(n) ==
    IF n = 0 THEN <<>>
    ELSE IF Declared(NameAt(n))
         THEN UnrecognizedTokens(n - 1)
         ELSE Append(UnrecognizedTokens(n - 1), NameAt(n))

\* the map being built, or the caller's map once the call has returned
ResultMap == IF pc = "done" THEN names_by_values_out ELSE names_by_values

Thrown(e) == pc = "thrown" /\ err = e

\* only declared names, each value-bearing one followed by a token
RECURSIVE WellFormed(_)
WellFormed(a) ==
    \/ a = <<>>
    \/ /\ Declared(Head(a))
       /\ IF OptionOf(Head(a)).no_parameter
          THEN WellFormed(Tail(a))
          ELSE Len(a) >= 2 /\ WellFormed(Tail(Tail(a)))

\* the same, and no parameter starts with '-'
RECURSIVE DashFree(_)
DashFree(a) ==
    \/ a = <<>>
    \/ /\ Declared(Head(a))
       /\ IF OptionOf(Head(a)).no_parameter
          THEN DashFree(Tail(a))
          ELSE Len(a) >= 2 /\ ~StartsWithDash(a[2]) /\ DashFree(Tail(Tail(a)))

\* how often a well-formed token sequence names option o
RECURSIVE Occurrences(_, _)
Occurrences(a, o) ==
    IF a = <<>> THEN 0
    ELSE (IF Head(a) \in Names(o) THEN 1 ELSE 0)
         + Occurrences(IF OptionOf(Head(a)).no_parameter THEN Tail(a) ELSE Tail(Tail(a)), o)

WithinMax(a) == \A o \in OptionSet : Occurrences(a, o) <= o.max_appearances

ReferencedNames(a) == {Canonical(o) : o \in {q \in OptionSet : Occurrences(a, q) > 0}}

OptionalNames == {Canonical(o) : o \in {q \in OptionSet : q.min_appearances = 0}}

OccurrenceCounts(a) ==
    \A o \in OptionSet :
        Occurrences(a, o) > 0 =>
            /\ Canonical(o) \in DOMAIN names_by_values_out
            /\ Len(names_by_values_out[Canonical(o)]) = Occurrences(a, o)

(* ------------------------------- C1 ------------------------------------- *)

\* C1 as stated: on a token sequence of declared names, each value-bearing
\* one followed by its parameter, parse succeeds, the keys of the result are
\* exactly the canonical names referenced, one value per occurrence.
C1_AsStated ==
    WellFormed(argv) =>
        /\ pc # "thrown"
        /\ pc = "done" =>
              /\ DOMAIN names_by_values_out = ReferencedNames(argv)
              /\ OccurrenceCounts(argv)

\* C1 amended: when moreover no parameter starts with '-' and no option is
\* named more often than its max_appearances, parse succeeds, the keys of
\* the result are the canonical names referenced together with those of
\* every option whose min_appearances is 0, and each referenced key holds
\* one value per occurrence.
C1_WellFormedInput ==
    (DashFree(argv) /\ WithinMax(argv)) =>
        /\ pc # "thrown"
        /\ pc = "done" =>
              /\ DOMAIN names_by_values_out = ReferencedNames(argv) \cup OptionalNames
              /\ OccurrenceCounts(argv)

C1_Witness ==
    /\ pc = "done"
    /\ DashFree(argv) /\ WithinMax(argv)
    /\ \E o \in OptionSet : Occurrences(argv, o) >= 2

(* ------------------------------- C2 ------------------------------------- *)

\* C2: the too-many-appearances error is thrown exactly at the name position
\* where an option has already been named max_appearances times, never
\* before; and no key ever holds more values than its option's
\* max_appearances.
C2_TooManyExactlyAtLimit ==
    /\ \A n \in 1..LastName :
          Declared(NameAt(n)) =>
              LET o == OptionOf(NameAt(n))
                  before == Cardinality(Earlier(o, n))
              IN  /\ before <= o.max_appearances
                  /\ (before = o.max_appearances)
                        <=> (n = LastName /\ Thrown("appears too many times"))
    /\ \A o \in OptionSet :
          Canonical(o) \in DOMAIN ResultMap =>
              Len(ResultMap[Canonical(o)]) <= o.max_appearances

C2_Witness ==
    /\ Thrown("appears too many times")
    /\ NameAt(LastName) = StrVerbose
    /\ Cardinality(Earlier(OptionOf(StrVerbose), LastName)) = 1
    /\ names_by_values[StrVerbose] = <<StrEmpty>>

(* ------------------------------- C3 ------------------------------------- *)

\* C3: after a successful parse an unreferenced option with
\* min_appearances 0 is mapped to its default_values, and a referenced
\* option holds exactly the values the input supplied.
C3_DefaultsOnlyWhenAbsent ==
    pc = "done" =>
        \A o \in OptionSet :
            IF ReferencedIn(o, LastName)
            THEN /\ Canonical(o) \in DOMAIN names_by_values_out
                 /\ names_by_values_out[Canonical(o)] = Supplied(o, LastName)
            ELSE o.min_appearances = 0 =>
                    /\ Canonical(o) \in DOMAIN names_by_values_out
                    /\ names_by_values_out[Canonical(o)] = o.default_values

C3_Witness ==
    /\ pc = "done"
    /\ ~ReferencedIn(OptionOf(StrPort), LastName)
    /\ names_by_values_out[StrPort] = <<StrDefault>>
    /\ ~ReferencedIn(OptionOf(StrVerbose), LastName)
    /\ names_by_values_out[StrVerbose] = <<>>
    /\ ReferencedIn(OptionOf(StrJoin), LastName)

C3_WitnessReferenced ==
    /\ pc = "done"
    /\ ReferencedIn(OptionOf(StrPort), LastName)
    /\ names_by_values_out[StrPort] = <<StrValue>>

(* ------------------------------- C4 ------------------------------------- *)

\* C4: a value-bearing option below its max_appearances whose next token
\* starts with '-' fails with the looks-like-an-option error, or with the
\* missing-parameter error when there is no next token, with or without
\* unrecognized-collection; no value recorded from the input for a
\* value-bearing option starts with '-'.
C4_ParameterNeverLooksLikeOption ==
    /\ \A n \in 1..LastName :
          LET p == name_positions[n]
              o == OptionOf(NameAt(n))
          IN  (/\ Declared(NameAt(n))
               /\ ~o.no_parameter
               /\ Cardinality(Earlier(o, n)) < o.max_appearances) =>
                  /\ p = argc =>
                        (n = LastName /\ Thrown("missing its parameter") /\ i = p)
                  /\ (p < argc /\ StartsWithDash(argv[p + 1])) =>
                        (n = LastName /\ Thrown("looks like another option name"))
                  /\ (p < argc /\ ~StartsWithDash(argv[p + 1])) =>
                        ~(n = LastName /\ pc = "thrown")
    /\ \A o \in OptionSet :
          (~o.no_parameter /\ ReferencedIn(o, Completed)
                /\ Canonical(o) \in DOMAIN ResultMap) =>
              \A m \in 1..Len(ResultMap[Canonical(o)]) :
                  ~StartsWithDash(ResultMap[Canonical(o)][m])

C4_Witness ==
    /\ Thrown("looks like another option name")
    /\ collect_unrecognized
    /\ argv[i] = StrUndeclared
    /\ Completed >= 1

C4_WitnessMissing ==
    /\ Thrown("missing its parameter")
    /\ i = argc

(* ------------------------------- C5 ------------------------------------- *)

\* C5: with unrecognized-collection enabled parse never throws the
\* unrecognized-option or unexpected-value error; an unrecognized token
\* leaves the map alone and the token after it is the next name position;
\* on success the unrecognized sequence is the unmatched tokens of the name
\* positions, in input order.
C5_CollectsUnrecognized ==
    collect_unrecognized =>
        /\ err \notin {"unrecognized option", "unexpected unnamed value"}
        /\ \A n \in 1..LastName :
              ~Declared(NameAt(n)) =>
                  IF n < LastName
                  THEN name_positions[n + 1] = name_positions[n] + 1
                  ELSE pc # "thrown" /\ i = name_positions[n]
        /\ \A k \in DOMAIN ResultMap : Declared(k)
        /\ \A o \in OptionSet :
              (ReferencedIn(o, Completed) /\ Canonical(o) \in DOMAIN ResultMap) =>
                  Len(ResultMap[Canonical(o)]) = Cardinality(Earlier(o, Completed + 1))
        /\ pc = "loop" => unrecognized = UnrecognizedTokens(LastName)
        /\ pc = "done" => unrecognized_out = UnrecognizedTokens(LastName)

C5_Witness ==
    /\ pc = "done"
    /\ collect_unrecognized
    /\ Len(unrecognized_out) >= 2
    /\ unrecognized_out[1] # unrecognized_out[2]
    /\ LastName < argc

(* ------------------------------- C6 ------------------------------------- *)

\* C6: with unrecognized-collection disabled the first unmatched token at a
\* name position ends the parse there, with the unrecognized-option error
\* when it starts with '-' and the unexpected-value error otherwise.
C6_FailsAtFirstUnrecognized ==
    ~collect_unrecognized =>
        \A n \in 1..LastName :
            ~Declared(NameAt(n)) =>
                /\ n = LastName
                /\ i = name_positions[n]
                /\ Thrown(IF StartsWithDash(NameAt(n))
                          THEN "unrecognized option"
                          ELSE "unexpected unnamed value")

C6_Witness ==
    /\ Thrown("unexpected unnamed value")
    /\ ~collect_unrecognized
    /\ i < argc
    /\ LastName >= 2

C6_WitnessDash ==
    /\ Thrown("unrecognized option")
    /\ i < argc

(* ------------------------------- C7 ------------------------------------- *)

AbsentMandatory ==
    {o \in OptionSet : o.min_appearances >= 1 /\ ~ReferencedIn(o, LastName)}

\* C7: a token sequence that names no mandatory option, the empty one
\* included, does not fail on that account, and after a successful parse
\* the canonical name of an absent mandatory option is not a key.
C7_NoMinimumEnforced ==
    /\ (DashFree(argv) /\ WithinMax(argv)
            /\ \E o \in OptionSet : o.min_appearances >= 1 /\ Occurrences(argv, o) = 0)
          => pc # "thrown"
    /\ pc = "done" =>
          \A o \in AbsentMandatory : Canonical(o) \notin DOMAIN names_by_values_out

C7_Witness ==
    /\ pc = "done"
    /\ argv # <<>>
    /\ Cardinality(AbsentMandatory) = 2
    /\ names_by_values = StaleMap

C7_WitnessEmpty ==
    /\ pc = "done"
    /\ argv = <<>>

(* ------------------------------- C9 ------------------------------------- *)

C9_WitnessAccumulate ==
    /\ pc = "loop"
    /\ DOMAIN names_by_values = {StrPort}
    /\ argv[1] = StrPortShort

(* ------------------------------- C10 ------------------------------------ *)

\* C10: the caller's map and vector change only in the step that returns,
\* which is taken once the whole pass is over and the defaults are in; a
\* step that throws leaves them as they were.
C10_AllOrNothing ==
    [][ /\ pc' # "done" =>
              /\ names_by_values_out' = names_by_values_out
              /\ unrecognized_out' = unrecognized_out
        /\ pc' = "done" =>
              /\ pc = "loop"
              /\ i = argc
              /\ OptionalNames \subseteq DOMAIN names_by_values_out'
              /\ \A k \in DOMAIN names_by_values : k \in DOMAIN names_by_values_out'
      ]_vars

C10_Witness ==
    /\ pc = "thrown"
    /\ names_by_values # EmptyMap
    /\ \E k \in DOMAIN names_by_values : names_by_values[k] # <<>>
    /\ unrecognized # <<>>
    /\ names_by_values_out = StaleMap
    /\ unrecognized_out = StaleUnrecognized

(* ------------------------------ word_wrap ------------------------------- *)

\* isspace in the C locale ('\v', the sixth space character, has no TLA+
\* escape; the inputs are drawn from WrapAlphabet, which has ' ' and '\n')
isspace(c) == c \in {" ", "\t", "\n", "\f", "\r"}

\* while (it != end && isspace(*it)) ++it; positions are 1-based, end is Len+1
RECURSIVE skip_spaces(_, _)
skip_spaces(str, it) ==
    IF it <= Len(str) /\ isspace(str[it]) THEN skip_spaces(str, it + 1) ELSE it

\* while (jt != end && !isspace(*jt)) ++jt
RECURSIVE skip_word(_, _)
skip_word(str, jt) ==
    IF jt <= Len(str) /\ ~isspace(str[jt]) THEN skip_word(str, jt + 1) ELSE jt

\* the for (;;) loop of split_by_spaces with the iterator at it
RECURSIVE split_loop(_, _, _)
split_loop(str, it, acc) ==
    LET it2 == skip_spaces(str, it)
    IN  IF it2 = Len(str) + 1 THEN acc
        ELSE LET jt == skip_word(str, it2)
             IN  split_loop(str, jt, Append(acc, SubSeq(str, it2, jt - 1)))

split_by_spaces(str) == split_loop(str, 1, <<>>)

fits_no_separator(current_line, word, w) == Len(current_line) + Len(word) <= w

\* current_line.size() + 1 + it->size() <= width
fits(current_line, word, w) == Len(current_line) + 1 + Len(word) <= w

\* the loop over words, at word n, followed by the final push_back
RECURSIVE wrap_loop(_, _, _, _, _)
wrap_loop(words, n, w, acc, current_line) ==
    IF n > Len(words) THEN Append(acc, current_line)
    ELSE IF current_line = <<>>
         THEN wrap_loop(words, n + 1, w, acc, words[n])
         ELSE IF fits(current_line, words[n], w)
              THEN wrap_loop(words, n + 1, w, acc, current_line \o <<" ">> \o words[n])
              ELSE wrap_loop(words, n + 1, w, Append(acc, current_line), words[n])

word_wrap(str, w) == wrap_loop(split_by_spaces(str), 1, w, <<>>, <<>>)

CallWordWrap ==
    /\ wpc = "call"
    /\ ret' = word_wrap(s, width)
    /\ wpc' = "returned"
    /\ UNCHANGED <<s, width, parse_vars>>

ParseIdle ==
    /\ argv = <<>>
    /\ collect_unrecognized = FALSE
    /\ names_by_values_out = EmptyMap
    /\ unrecognized_out = <<>>
    /\ pc = "idle"
    /\ err = "none"
    /\ i = 0
    /\ names_by_values = EmptyMap
    /\ unrecognized = <<>>
    /\ name_positions = <<>>

WrapInit ==
    /\ s \in SeqsUpTo(WrapAlphabet, MaxStrLen)
    /\ width \in 0..MaxWidth
    /\ wpc = "call"
    /\ ret = <<>>
    /\ ParseIdle

WrapNext == CallWordWrap

WrapSpec == WrapInit /\ [][WrapNext]_vars


(* ------------------------------- C8 ------------------------------------- *)

NoWords(str) == \A n \in 1..Len(str) : str[n] \in {" ", "\t", "\n", "\f", "\r"}

SingleWord(line) ==
    /\ line # <<>>
    /\ \A n \in 1..Len(line) : line[n] \notin {" ", "\t", "\n", "\f", "\r"}

\* C8 as stated: every line word_wrap returns has at most width characters,
\* there is at least one line, and exactly one empty line when the string
\* holds no word.
C8_AsStated ==
    wpc = "returned" =>
        /\ \A n \in 1..Len(ret) : Len(ret[n]) <= width
        /\ Len(ret) >= 1
        /\ NoWords(s) => ret = << <<>> >>

\* C8 amended: every line word_wrap returns has at most width characters
\* unless it is a single word that is itself longer than width, which gets
\* a line of its own; there is at least one line, and exactly one empty
\* line when the string holds no word.
C8_LinesFitUnlessOneLongWord ==
    wpc = "returned" =>
        /\ \A n \in 1..Len(ret) : Len(ret[n]) <= width \/ SingleWord(ret[n])
        /\ Len(ret) >= 1
        /\ NoWords(s) => ret = << <<>> >>

C8_Witness ==
    /\ wpc = "returned"
    /\ width >= 2
    /\ \E n \in 1..Len(ret) : Len(ret[n]) > width
    /\ \E n \in 1..Len(ret) : ret[n] # <<>> /\ Len(ret[n]) <= width

C8_WitnessNoWords ==
    /\ wpc = "returned"
    /\ s # <<>>
    /\ ret = << <<>> >>

====
